---- MODULE Spec2Model ----
(***************************************************************************)
(* A model of pwiz_aux/sfcap/peptideSieve/proteotypicResult.hpp.           *)
(*                                                                         *)
(* struct ProteotypicResult is a plain aggregate with three public         *)
(* members, string _protein, string _peptide, map<string,double> _results, *)
(* and one constructor that initialises the two strings to "".  Callers    *)
(* work on the members directly: they assign the strings, write            *)
(* _results[k] = v, and read the three members.                            *)
(*                                                                         *)
(* A string is a finite sequence of character codes.  A map<string,double> *)
(* is what the container is: a sequence of (key, value) entries kept in    *)
(* strictly increasing key order under std::less<string>.  A double is one *)
(* of a few numbers; 0 is double(), the value operator[] stores under a    *)
(* key it had not seen.                                                    *)
(***************************************************************************)
EXTENDS Integers, Sequences, FiniteSets, TLC

\* Bounds of the model.
NumRecords == 2
NumChars == 2
NumStrs == 4
MaxValue == 1
MaxOps == 4

Records == 1..NumRecords
Doubles == 0..MaxValue

\* The n-th string over the characters 1..NumChars, shortest first:
\* <<>>, <<1>>, ..., <<NumChars>>, <<1,1>>, <<1,2>>, ...
RECURSIVE StrOf(_)
StrOf(n) ==
  IF n = 0 THEN <<>>
  ELSE Append(StrOf((n - 1) \div NumChars), ((n - 1) % NumChars) + 1)

Strings == {StrOf(n) : n \in 0..(NumStrs - 1)}

\* ---------------------------------------------------------------- string

\* std::string's operator<, the order of map<string,double>: lexicographic
\* on the characters, a proper prefix before the longer string.
RECURSIVE StrLess(_, _)
StrLess(a, b) ==
  IF b = <<>> THEN FALSE
  ELSE IF a = <<>> THEN TRUE
  ELSE IF a[1] < b[1] THEN TRUE
  ELSE IF b[1] < a[1] THEN FALSE
  ELSE StrLess(Tail(a), Tail(b))

\* ------------------------------------------------------------------- map

\* map::lower_bound: the first position whose key is not less than k, or
\* one past the end.
lower_bound(m, k) ==
  CHOOSE i \in 1..(Len(m) + 1) :
    /\ i = Len(m) + 1 \/ ~StrLess(m[i].key, k)
    /\ \A j \in 1..(i - 1) : StrLess(m[j].key, k)

\* A container that keeps insertion order: the entry goes to the end.
InsertAt_end(m, i, e) == Append(m, e)

\* The entries of m with e put in front of position i.
InsertAt(m, i, e) ==
  SubSeq(m, 1, i - 1) \o <<e>> \o SubSeq(m, i, Len(m))

\* map::operator[] as far as it changes the map: an absent key gets an entry
\* holding double() at its sorted position; a present key changes nothing.
Subscript(m, k) ==
  LET i == lower_bound(m, k)
  IN IF i <= Len(m) /\ ~StrLess(k, m[i].key) THEN m
     ELSE InsertAt(m, i, [key |-> k, val |-> 0])

\* m[k] += v;  the new score is added to the one held.
SubscriptAssign_accumulates(m, k, v) ==
  [Subscript(m, k) EXCEPT ![lower_bound(m, k)].val = @ + v]

\* The statement  m[k] = v;  operator[] yields a reference to the value of
\* the entry at the position lower_bound found, where the key was or now
\* is, and the assignment stores v there.
SubscriptAssign(m, k, v) ==
  [Subscript(m, k) EXCEPT ![lower_bound(m, k)].val = v]

\* ---------------------------------------------------------------- record

\* A constructor that seeds the score set with an entry under the empty name.
ProteotypicResult_seeded ==
  [_protein |-> <<>>, _peptide |-> <<>>,
   _results |-> <<[key |-> <<>>, val |-> 0]>>]

\* ProteotypicResult(): _protein(""), _peptide("") and, not named in the
\* initialiser list, _results default-constructed: the empty map.
ProteotypicResult ==
  [_protein |-> <<>>, _peptide |-> <<>>, _results |-> <<>>]

\* An object's members are public, so a caller's statement on a member is an
\* operation of the record.  Each is given as the record's value afterwards.

\* R._protein = R._peptide = s;
AssignProtein_both(R, s) == [R EXCEPT !._protein = s, !._peptide = s]

\* R._protein = s;
AssignProtein(R, s) == [R EXCEPT !._protein = s]

\* R._peptide = s;
AssignPeptide(R, s) == [R EXCEPT !._peptide = s]

\* A record that keeps only the score stored last.
AssignResult_replaces(R, k, v) ==
  [R EXCEPT !._results = SubscriptAssign(<<>>, k, v)]

\* R._results[k] = v;
AssignResult(R, k, v) ==
  [R EXCEPT !._results = SubscriptAssign(R._results, k, v)]

\* ----------------------------------------------------------------- state

VARIABLES
  objs,      \* the constructed records: record id -> its three members
  op,        \* the last operation a caller performed, and what it returned
  inserted,  \* record id -> the names a caller has stored a score under
  nops       \* operations performed so far; the model stops at MaxOps

vars == <<objs, op, inserted, nops>>

\* map::find, as a value: what the map holds under k, <<>> (end()) or
\* <<value>>.
Prior(m, k) ==
  LET hits == {i \in 1..Len(m) : m[i].key = k}
  IN IF hits = {} THEN <<>> ELSE <<m[CHOOSE i \in hits : TRUE].val>>

Call(kind, r, s, v, prior, ret) ==
  [kind |-> kind, rec |-> r, str |-> s, num |-> v, prior |-> prior, ret |-> ret]

Init ==
  /\ objs = <<>>
  /\ op = Call("none", 0, <<>>, 0, <<>>, <<>>)
  /\ inserted = [r \in Records |-> {}]
  /\ nops = 0

\* ProteotypicResult R;
Construct(r) ==
  /\ nops < MaxOps
  /\ r \notin DOMAIN objs
  /\ objs' = [x \in DOMAIN objs \cup {r} |->
                IF x = r THEN ProteotypicResult ELSE objs[x]]
  /\ op' = Call("construct", r, <<>>, 0, <<>>, <<>>)
  /\ inserted' = [inserted EXCEPT ![r] = {}]
  /\ nops' = nops + 1

\* R._protein = s;
SetProtein(r, s) ==
  /\ nops < MaxOps
  /\ r \in DOMAIN objs
  /\ objs' = [objs EXCEPT ![r] = AssignProtein(objs[r], s)]
  /\ op' = Call("setProtein", r, s, 0, <<>>, <<>>)
  /\ nops' = nops + 1
  /\ UNCHANGED inserted

\* An assignment that refuses the empty string.
SetPeptide_rejectsEmpty(r, s) ==
  /\ nops < MaxOps
  /\ r \in DOMAIN objs
  /\ s # <<>>
  /\ objs' = [objs EXCEPT ![r] = AssignPeptide(objs[r], s)]
  /\ op' = Call("setPeptide", r, s, 0, <<>>, <<>>)
  /\ nops' = nops + 1
  /\ UNCHANGED inserted

\* R._peptide = s;
SetPeptide(r, s) ==
  /\ nops < MaxOps
  /\ r \in DOMAIN objs
  /\ objs' = [objs EXCEPT ![r] = AssignPeptide(objs[r], s)]
  /\ op' = Call("setPeptide", r, s, 0, <<>>, <<>>)
  /\ nops' = nops + 1
  /\ UNCHANGED inserted

\* One map for the whole process: a store reaches every record.
StoreScore_shared(os, r, k, v) ==
  [x \in DOMAIN os |-> AssignResult(os[x], k, v)]

\* The members of record r after  R._results[k] = v;  on it.  _results is a
\* non-static member: the statement reaches the map of r and no other.
StoreScore(os, r, k, v) ==
  [os EXCEPT ![r] = AssignResult(os[r], k, v)]

\* R._results[k] = v;
InsertScore(r, k, v) ==
  /\ nops < MaxOps
  /\ r \in DOMAIN objs
  /\ objs' = StoreScore(objs, r, k, v)
  /\ op' = Call("insert", r, k, v, Prior(objs[r]._results, k), <<>>)
  /\ inserted' = [inserted EXCEPT ![r] = @ \cup {k}]
  /\ nops' = nops + 1

\* A read that moves the string out of the record.
ReadProtein_moves(r) ==
  /\ nops < MaxOps
  /\ r \in DOMAIN objs
  /\ op' = Call("readProtein", r, <<>>, 0, <<>>, objs[r]._protein)
  /\ objs' = [objs EXCEPT ![r] = AssignProtein(objs[r], <<>>)]
  /\ nops' = nops + 1
  /\ UNCHANGED inserted

\* ... = R._protein;
ReadProtein(r) ==
  /\ nops < MaxOps
  /\ r \in DOMAIN objs
  /\ op' = Call("readProtein", r, <<>>, 0, <<>>, objs[r]._protein)
  /\ nops' = nops + 1
  /\ UNCHANGED <<objs, inserted>>

\* ... = R._peptide;
ReadPeptide(r) ==
  /\ nops < MaxOps
  /\ r \in DOMAIN objs
  /\ op' = Call("readPeptide", r, <<>>, 0, <<>>, objs[r]._peptide)
  /\ nops' = nops + 1
  /\ UNCHANGED <<objs, inserted>>

\* A read that moves the score set out of the record.
ReadResults_moves(r) ==
  /\ nops < MaxOps
  /\ r \in DOMAIN objs
  /\ op' = Call("readResults", r, <<>>, 0, <<>>, objs[r]._results)
  /\ objs' = [objs EXCEPT ![r]._results = <<>>]
  /\ nops' = nops + 1
  /\ UNCHANGED inserted

\* ... = R._results;   (the whole score set)
ReadResults(r) ==
  /\ nops < MaxOps
  /\ r \in DOMAIN objs
  /\ op' = Call("readResults", r, <<>>, 0, <<>>, objs[r]._results)
  /\ nops' = nops + 1
  /\ UNCHANGED <<objs, inserted>>

Next ==
  \E r \in Records :
    \/ Construct(r)
    \/ \E s \in Strings : SetProtein(r, s)
    \/ \E s \in Strings : SetPeptide(r, s)
    \/ \E k \in Strings, v \in Doubles : InsertScore(r, k, v)
    \/ ReadProtein(r)
    \/ ReadPeptide(r)
    \/ ReadResults(r)

Spec == Init /\ [][Next]_vars

\* ---------------------------------------------------------------- claims

\* The names a score set holds, and how many entries it holds under k.
Keys(m) == {m[i].key : i \in 1..Len(m)}
Count(m, k) == Cardinality({i \in 1..Len(m) : m[i].key = k})

MutatorKinds == {"setProtein", "setPeptide", "insert"}
ReadKinds == {"readProtein", "readPeptide", "readResults"}

\* C1: a record that has just been default-constructed has the empty string
\* as protein, the empty string as peptide, and a score set with no entries.
C1_FreshRecordIsEmpty ==
  op.kind = "construct" =>
    /\ objs[op.rec]._protein = <<>>
    /\ objs[op.rec]._peptide = <<>>
    /\ Len(objs[op.rec]._results) = 0

\* A record is constructed while another record already holds a protein and
\* a score.
C1_Witness ==
  /\ op.kind = "construct"
  /\ \E r \in DOMAIN objs :
       /\ r # op.rec
       /\ objs[r]._protein # <<>>
       /\ objs[r]._results # <<>>

\* C2: after v is stored under k, whatever the score set held under k
\* before, the score set has exactly one entry under k and its value is v.
C2_LastWriteWins ==
  op.kind = "insert" =>
    /\ Count(objs[op.rec]._results, op.str) = 1
    /\ Prior(objs[op.rec]._results, op.str) = <<op.num>>

\* A score is stored under a name that already held a different score, not
\* the default one.
C2_Witness ==
  /\ op.kind = "insert"
  /\ op.prior # <<>>
  /\ op.prior[1] # 0
  /\ op.prior[1] # op.num

\* C3 as stated: for every record, storing v1 under k1 and v2 under k2
\* (k1 # k2) gives a score set of size 2 with both lookups right, the same
\* in either order.  Here k1, v1 are those of a store a caller performs and
\* k2, v2 are any that may follow.
C3_Original ==
  [][op'.kind = "insert" =>
       \A before \in {objs[op'.rec]._results} :
         \A k2 \in Strings \ {op'.str}, v2 \in Doubles :
           \A m \in {SubscriptAssign(objs'[op'.rec]._results, k2, v2)},
              other \in {SubscriptAssign(before, k2, v2)} :
             /\ Len(m) = 2
             /\ Prior(m, op'.str) = <<op'.num>>
             /\ Prior(m, k2) = <<v2>>
             /\ m = SubscriptAssign(other, op'.str, op'.num)]_vars

\* C3 amended: for every record, storing v1 under k1 and v2 under k2
\* (k1 # k2) gives a score set with lookup(k1) = v1 and lookup(k2) = v2, the
\* same in either order; it holds one entry for each of k1, k2 and the names
\* the record held before, so its size is 2 when the record held no other
\* name (a fresh record among them).
C3_TwoKeys ==
  [][op'.kind = "insert" =>
       \A before \in {objs[op'.rec]._results} :
         \A k2 \in Strings \ {op'.str}, v2 \in Doubles :
           \A m \in {SubscriptAssign(objs'[op'.rec]._results, k2, v2)},
              other \in {SubscriptAssign(before, k2, v2)} :
             /\ Prior(m, op'.str) = <<op'.num>>
             /\ Prior(m, k2) = <<v2>>
             /\ m = SubscriptAssign(other, op'.str, op'.num)
             /\ Len(m) = Cardinality(Keys(before) \cup {op'.str, k2})
             /\ (Keys(before) \subseteq {op'.str, k2} => Len(m) = 2)]_vars

\* A fresh record got two scores, the second under the name that sorts
\* first, with different values.
C3_Witness ==
  /\ op.kind = "insert"
  /\ op.prior = <<>>
  /\ inserted[op.rec] # {op.str}
  /\ Len(objs[op.rec]._results) = 2
  /\ objs[op.rec]._results[1].key = op.str
  /\ objs[op.rec]._results[2].val # op.num

\* C5: assigning the protein or the peptide leaves the score set and the
\* other string as they were; storing a score leaves both strings as they
\* were.
C5_FieldIndependence ==
  [][\A r \in DOMAIN objs :
       /\ op'.kind = "setProtein" =>
            /\ objs'[r]._results = objs[r]._results
            /\ objs'[r]._peptide = objs[r]._peptide
       /\ op'.kind = "setPeptide" =>
            /\ objs'[r]._results = objs[r]._results
            /\ objs'[r]._protein = objs[r]._protein
       /\ op'.kind = "insert" =>
            /\ objs'[r]._protein = objs[r]._protein
            /\ objs'[r]._peptide = objs[r]._peptide]_vars

\* The protein of a record that holds a peptide and a score is assigned.
C5_Witness ==
  /\ op.kind = "setProtein"
  /\ op.str # <<>>
  /\ objs[op.rec]._peptide # <<>>
  /\ objs[op.rec]._results # <<>>

\* C6 as stated: a constructed record keeps the protein, the peptide and the
\* score set it had at the end of construction.
C6_Original ==
  [][\A r \in DOMAIN objs : objs'[r] = objs[r]]_vars

\* C6 amended: a record can be changed after construction; its protein,
\* peptide and score set keep their values until a caller assigns that
\* record's protein or peptide or stores a score in it.
C6_ChangedOnlyByItsMutators ==
  [][\A r \in DOMAIN objs :
       objs'[r] # objs[r] => op'.rec = r /\ op'.kind \in MutatorKinds]_vars

\* A member of a record that holds values is read.
C6_Witness ==
  /\ op.kind = "readProtein"
  /\ op.ret # <<>>
  /\ objs[op.rec]._results # <<>>

\* C7: an assignment or a stored score on one record leaves the protein,
\* the peptide and the score set of every other record as they were.
C7_RecordsAreSeparate ==
  [][\A r \in DOMAIN objs : op'.rec # r => objs'[r] = objs[r]]_vars

\* A score is stored in one record while another record holds a score set
\* that differs from it.
C7_Witness ==
  /\ op.kind = "insert"
  /\ \E r \in DOMAIN objs :
       /\ r # op.rec
       /\ objs[r]._results # <<>>
       /\ objs[r]._results # objs[op.rec]._results

\* C8: construction of a record not yet constructed, assignment of any
\* string to the protein or the peptide and storing any score under any
\* name are possible in every state short of the MaxOps cap, and what was
\* assigned or stored is what the record then holds.
C8_NoOperationFails ==
  /\ nops < MaxOps =>
       /\ \A r \in Records \ DOMAIN objs : ENABLED Construct(r)
       /\ \A r \in DOMAIN objs :
            /\ \A s \in Strings : ENABLED SetProtein(r, s)
            /\ \A s \in Strings : ENABLED SetPeptide(r, s)
            /\ \A k \in Strings, v \in Doubles : ENABLED InsertScore(r, k, v)
  /\ op.kind = "construct" => op.rec \in DOMAIN objs
  /\ op.kind = "setProtein" => objs[op.rec]._protein = op.str
  /\ op.kind = "setPeptide" => objs[op.rec]._peptide = op.str
  /\ op.kind = "insert" => Prior(objs[op.rec]._results, op.str) = <<op.num>>

\* The empty string is assigned to the peptide of a record that holds a
\* protein and a score.
C8_Witness ==
  /\ op.kind = "setPeptide"
  /\ op.str = <<>>
  /\ objs[op.rec]._protein # <<>>
  /\ objs[op.rec]._results # <<>>

\* C9: reading the protein, the peptide or the whole score set changes no
\* record, and yields the member's value.
C9_ReadsChangeNothing ==
  [][op'.kind \in ReadKinds =>
       /\ objs' = objs
       /\ op'.kind = "readProtein" => op'.ret = objs[op'.rec]._protein
       /\ op'.kind = "readPeptide" => op'.ret = objs[op'.rec]._peptide
       /\ op'.kind = "readResults" => op'.ret = objs[op'.rec]._results]_vars

\* The score set of a record that holds two scores is read.
C9_Witness ==
  /\ op.kind = "readResults"
  /\ Len(op.ret) = 2

\* C10: the names in a record's score set are exactly the names scores were
\* stored under; no operation removes a name or lowers the number of
\* entries; storing under k adds at most one entry and leaves what is held
\* under every other name as it was.
C10_ScoreSetOnlyGrows ==
  [][/\ \A r \in DOMAIN objs' : Keys(objs'[r]._results) = inserted'[r]
     /\ \A r \in DOMAIN objs :
          /\ Keys(objs[r]._results) \subseteq Keys(objs'[r]._results)
          /\ Len(objs[r]._results) <= Len(objs'[r]._results)
          /\ Len(objs'[r]._results) <= Len(objs[r]._results) + 1
          /\ \A k \in Strings :
               \/ op'.kind = "insert" /\ op'.rec = r /\ op'.str = k
               \/ Prior(objs'[r]._results, k) = Prior(objs[r]._results, k)]_vars

\* A score is replaced in a record that holds a score under another name.
C10_Witness ==
  /\ op.kind = "insert"
  /\ op.prior # <<>>
  /\ op.prior[1] # op.num
  /\ Len(objs[op.rec]._results) >= 2

====
